---- MODULE Spec2Model ----
(***************************************************************************)
(* The Upload_image HTTP function (src/Upload_image/__init__.py) and its   *)
(* ADLS helpers (src/Upload_image/adls_utils.py) as a state machine.       *)
(*                                                                         *)
(* Python values are modelled as follows.                                  *)
(*   str    a tuple of one-character strings, <<"a", "/", "b">>            *)
(*   bytes  a tuple of numbers 0..255                                      *)
(*   None   the value None (a tuple no str is equal to)                    *)
(*   a value decoded from JSON: a record tagged by its Python type,        *)
(*          [t |-> "dict", items |-> << <<key, value>>, ... >>],           *)
(*          [t |-> "list", e |-> <<...>>], [t |-> "str", s |-> <<...>>],   *)
(*          [t |-> "num", n |-> 5], [t |-> "null"]                         *)
(*   an opaque text (an HTTP body, an exception message) is                *)
(*          [t |-> "text", id |-> "..."]                                   *)
(***************************************************************************)
EXTENDS Integers, Sequences, FiniteSets, TLC

VARIABLES
    env,               \* the process environment: the two ADLS app settings
    container_exists,  \* storage: whether the container (file system) exists
    files,             \* storage: path -> [data, staged] of every file
    nfaults,           \* how many storage calls the network has failed
    pc,                \* per request: where its handler stands
    req,               \* per request: the HTTP request (or a direct call's arguments)
    loc,               \* per request: the locals of main
    call,              \* per request: the upload call in flight
    resp,              \* per request: the response (or a direct call's result)
    ops,               \* history, per request: the outbound calls made, in order
    raced,             \* history: the paths two uploads have been writing at once
    written            \* history: path -> the content of the last upload that returned it

vars == <<env, container_exists, files, nfaults, pc, req, loc, call, resp, ops, raced, written>>

(***************************************************************************)
(* Bounds of the model.                                                    *)
(***************************************************************************)
\* At most this many storage calls fail for a reason of the network's
\* (credential and position errors are not counted).
MaxFaults == 1

\* Store ids handed directly to the path builders are all the strings over
\* StoreIdAlphabet of at most this length.
MaxStoreIdLen == 2

(***************************************************************************)
(* Python's None, truthiness of an Optional[str], and str helpers.         *)
(***************************************************************************)
None == <<"<None>">>

Falsy(s) == s = None \/ s = <<>>

StartsWith(s, c) == Len(s) > 0 /\ s[1] = c

EndsWith(s, c) == Len(s) > 0 /\ s[Len(s)] = c

\* needle in haystack, for two str values
Contains(needle, hay) ==
    \E i \in 1..(Len(hay) - Len(needle) + 1) :
        SubSeq(hay, i, i + Len(needle) - 1) = needle

\* s[:n]
Prefix(s, n) == SubSeq(s, 1, IF n < Len(s) THEN n ELSE Len(s))

\* s[a:b], 0-based half-open as in Python, clipped to the length of s
Slice(s, a, b) == SubSeq(s, a + 1, IF b < Len(s) THEN b ELSE Len(s))

\* s.strip(c): every leading and trailing c removed
RECURSIVE LStrip(_, _)
LStrip(s, c) == IF StartsWith(s, c) THEN LStrip(Tail(s), c) ELSE s

RECURSIVE RStrip(_, _)
RStrip(s, c) == IF EndsWith(s, c) THEN RStrip(SubSeq(s, 1, Len(s) - 1), c) ELSE s

Strip(s, c) == RStrip(LStrip(s, c), c)

\* s.rfind(c) as a 1-based index, 0 when c does not occur
RFind(s, c) ==
    IF \E i \in 1..Len(s) : s[i] = c
    THEN CHOOSE i \in 1..Len(s) : s[i] = c /\ \A j \in (i + 1)..Len(s) : s[j] # c
    ELSE 0

(***************************************************************************)
(* posixpath.join and os.path.splitext, as the standard library computes   *)
(* them on a POSIX host.                                                   *)
(***************************************************************************)
\* One step of posixpath.join: a component that starts with "/" discards
\* everything joined so far.
JoinStep(path, b) ==
    IF StartsWith(b, "/") THEN b
    ELSE IF path = <<>> \/ EndsWith(path, "/") THEN path \o b
    ELSE path \o <<"/">> \o b

RECURSIVE JoinFrom(_, _)
JoinFrom(path, parts) ==
    IF parts = <<>> THEN path ELSE JoinFrom(JoinStep(path, Head(parts)), Tail(parts))

\* posixpath.join(parts[1], parts[2], ...)
PosixJoin(parts) == JoinFrom(Head(parts), Tail(parts))

\* The extension os.path.splitext(p)[1]: from the last "." of the last path
\* component, unless only dots precede it in that component.
SplitExt(p) ==
    LET sep == RFind(p, "/")
        dot == RFind(p, ".")
    IN  IF dot > sep /\ \E i \in (sep + 1)..(dot - 1) : p[i] # "."
        THEN SubSeq(p, dot, Len(p))
        ELSE <<>>

(***************************************************************************)
(* Encodings: base64.b64encode(...).decode(), str.encode("utf-8") on ASCII *)
(* text.                                                                   *)
(***************************************************************************)
B64Alphabet ==
    << "A", "B", "C", "D", "E", "F", "G", "H", "I", "J", "K", "L", "M", "N", "O", "P",
       "Q", "R", "S", "T", "U", "V", "W", "X", "Y", "Z", "a", "b", "c", "d", "e", "f",
       "g", "h", "i", "j", "k", "l", "m", "n", "o", "p", "q", "r", "s", "t", "u", "v",
       "w", "x", "y", "z", "0", "1", "2", "3", "4", "5", "6", "7", "8", "9", "+", "/" >>

\* The characters of codes 32..95 and of codes 97..126.
AsciiPrintable ==
    << " ", "!", "\"", "#", "$", "%", "&", "'", "(", ")", "*", "+", ",", "-", ".", "/",
       "0", "1", "2", "3", "4", "5", "6", "7", "8", "9", ":", ";", "<", "=", ">", "?",
       "@", "A", "B", "C", "D", "E", "F", "G", "H", "I", "J", "K", "L", "M", "N", "O",
       "P", "Q", "R", "S", "T", "U", "V", "W", "X", "Y", "Z", "[", "\\", "]", "^", "_" >>

AsciiLower ==
    << "a", "b", "c", "d", "e", "f", "g", "h", "i", "j", "k", "l", "m", "n", "o", "p",
       "q", "r", "s", "t", "u", "v", "w", "x", "y", "z", "{", "|", "}", "~" >>

\* ord(c) for the ASCII characters the texts of the model are made of
Ord(c) ==
    IF c = "\n" THEN 10
    ELSE IF \E i \in 1..Len(AsciiPrintable) : AsciiPrintable[i] = c
    THEN 31 + (CHOOSE i \in 1..Len(AsciiPrintable) : AsciiPrintable[i] = c)
    ELSE 96 + (CHOOSE i \in 1..Len(AsciiLower) : AsciiLower[i] = c)

\* text.encode("utf-8"), for ASCII text
Utf8Encode(text) == [i \in 1..Len(text) |-> Ord(text[i])]

Sextet(n) == B64Alphabet[n + 1]

RECURSIVE B64Encode(_)
B64Encode(b) ==
    IF Len(b) = 0 THEN <<>>
    ELSE IF Len(b) = 1 THEN
        LET n == b[1] * 65536
        IN  <<Sextet(n \div 262144), Sextet((n \div 4096) % 64), "=", "=">>
    ELSE IF Len(b) = 2 THEN
        LET n == b[1] * 65536 + b[2] * 256
        IN  <<Sextet(n \div 262144), Sextet((n \div 4096) % 64),
              Sextet((n \div 64) % 64), "=">>
    ELSE
        LET n == b[1] * 65536 + b[2] * 256 + b[3]
        IN  <<Sextet(n \div 262144), Sextet((n \div 4096) % 64),
              Sextet((n \div 64) % 64), Sextet(n % 64)>>
            \o B64Encode(SubSeq(b, 4, Len(b)))

(***************************************************************************)
(* The category dispatch table: the keys of CATEGORY_PROMPTS.              *)
(***************************************************************************)
CATEGORY_PROMPTS ==
    { <<"d", "r", "e", "s", "s", "c", "o", "d", "e">>,
      <<"d", "u", "s", "t", "b", "i", "n">>,
      <<"l", "i", "g", "h", "t", "s", "c", "h", "e", "c", "k">>,
      <<"f", "l", "o", "o", "r", "c", "h", "e", "c", "k">>,
      <<"n", "a", "i", "l", "p", "o", "l", "i", "s", "h", "t", "r", "a", "y">>,
      <<"s", "h", "a", "m", "p", "o", "o", "b", "o", "t", "t", "l", "e", "s">>,
      <<"r", "e", "s", "t", "r", "o", "o", "m", "c", "h", "e", "c", "k">>,
      <<"b", "e", "d", "c", "h", "e", "c", "k">>,
      <<"w", "a", "x", "t", "i", "n", "s", "c", "h", "e", "c", "k">>,
      <<"p", "e", "d", "i", "c", "u", "r", "e", "s", "e", "c", "t", "i", "o", "n", "c", "h", "e", "c", "k">>,
      <<"e", "y", "e", "b", "r", "o", "w", "t", "h", "r", "e", "a", "d", "k", "i", "t", "c", "h", "e", "c", "k">>,
      <<"t", "r", "o", "l", "l", "e", "y", "c", "h", "e", "c", "k">>,
      <<"s", "t", "e", "r", "i", "l", "i", "z", "e", "r", "c", "h", "e", "c", "k">>,
      <<"h", "a", "i", "r", "w", "a", "s", "h", "s", "t", "a", "t", "i", "o", "n", "c", "h", "e", "c", "k">>,
      <<"f", "a", "c", "i", "a", "l", "r", "o", "o", "m", "s", "t", "a", "t", "u", "s", "c", "h", "e", "c", "k">>,
      <<"r", "e", "c", "e", "p", "t", "i", "o", "n", "a", "r", "e", "a", "c", "h", "e", "c", "k">>,
      <<"t", "o", "o", "l", "s", "t", "e", "r", "i", "l", "i", "z", "a", "t", "i", "o", "n", "c", "h", "e", "c", "k">>,
      <<"h", "a", "i", "r", "c", "u", "t", "a", "r", "e", "a", "c", "h", "e", "c", "k">>,
      <<"g", "l", "a", "s", "s", "m", "i", "r", "r", "o", "r", "s", "c", "h", "a", "i", "r", "s", "c", "h", "e", "c", "k">> }

(***************************************************************************)
(* Storage Path Builder: the directory and file path each upload function  *)
(* computes.                                                               *)
(***************************************************************************)
Year(timestamp) == Slice(Prefix(timestamp, 8), 0, 4)

Month(timestamp) == Slice(Prefix(timestamp, 8), 4, 6)

Day(timestamp) == Slice(Prefix(timestamp, 8), 6, 8)

\* f"{category}_{timestamp}{ext}"
FileName(category, timestamp, ext) == category \o <<"_">> \o timestamp \o ext

JsonDirectory(timestamp, store_id) ==
    PosixJoin(<<<<"r", "e", "s", "u", "l", "t", "s">>, store_id, Year(timestamp), Month(timestamp), Day(timestamp)>>)

JsonPath(category, timestamp, store_id) ==
    PosixJoin(<<JsonDirectory(timestamp, store_id),
                FileName(category, timestamp, <<".", "j", "s", "o", "n">>)>>)

RawDirectory(timestamp, store_id) ==
    PosixJoin(<<<<"i", "m", "a", "g", "e", "s">>, <<"r", "a", "w">>, store_id,
                Year(timestamp), Month(timestamp), Day(timestamp)>>)

RawPath(category, store_id, original_filename, timestamp) ==
    PosixJoin(<<RawDirectory(timestamp, store_id),
                FileName(category, timestamp, SplitExt(original_filename))>>)

Base64Directory(timestamp, store_id) ==
    PosixJoin(<<<<"i", "m", "a", "g", "e", "s">>, <<"b", "a", "s", "e", "6", "4">>, store_id,
                Year(timestamp), Month(timestamp), Day(timestamp)>>)

Base64Path(category, store_id, timestamp) ==
    PosixJoin(<<Base64Directory(timestamp, store_id),
                FileName(category, timestamp, <<".", "t", "x", "t">>)>>)

(***************************************************************************)
(* Values decoded from JSON, and the Python operations the code applies to *)
(* them.                                                                   *)
(***************************************************************************)
JStr(s) == [t |-> "str", s |-> s]

JNum(n) == [t |-> "num", n |-> n]

JNull == [t |-> "null"]

JList(e) == [t |-> "list", e |-> e]

JDict(items) == [t |-> "dict", items |-> items]

Text(id) == [t |-> "text", id |-> id]

K_error == <<"e", "r", "r", "o", "r">>

K_details == <<"d", "e", "t", "a", "i", "l", "s">>

K_response == <<"r", "e", "s", "p", "o", "n", "s", "e">>

K_status == <<"s", "t", "a", "t", "u", "s">>

HasKey(v, key) == \E i \in 1..Len(v.items) : v.items[i][1] = key

\* v[key] for a dict that has the key
Lookup(v, key) == v.items[CHOOSE i \in 1..Len(v.items) : v.items[i][1] = key][2]

\* The outcome of the Python expression  key in v : "yes", "no" or
\* "TypeError" (a number, a boolean or None is not a container).  For a str
\* it is the substring test, for a list the element test.
PyIn(key, v) ==
    CASE v.t = "dict" -> IF HasKey(v, key) THEN "yes" ELSE "no"
      [] v.t = "list" -> IF \E i \in 1..Len(v.e) : v.e[i] = JStr(key) THEN "yes" ELSE "no"
      [] v.t = "str"  -> IF Contains(key, v.s) THEN "yes" ELSE "no"
      [] OTHER        -> "TypeError"

\* The reply texts of the model and what json.loads makes of each; a text
\* that is not listed here is not JSON.
T_pass == <<"{", "\"", "s", "t", "a", "t", "u", "s", "\"", ":", " ", "\"", "p", "a", "s", "s", "\"", "}">>

T_errkey == <<"{", "\"", "e", "r", "r", "o", "r", "\"", ":", " ", "\"", "x", "\"", "}">>

T_ok == <<"\"", "o", "k", "\"">>

T_strerr == <<"\"", "n", "o", " ", "e", "r", "r", "o", "r", "\"">>

T_num == <<"5">>

T_listerr == <<"[", "\"", "e", "r", "r", "o", "r", "\"", "]">>

T_null == <<"n", "u", "l", "l">>

T_notjson == <<"n", "o", "t", " ", "j", "s", "o", "n">>

V_pass == JDict(<< <<K_status, JStr(<<"p", "a", "s", "s">>)>> >>)

V_errkey == JDict(<< <<K_error, JStr(<<"x">>)>> >>)

V_ok == JStr(<<"o", "k">>)

V_strerr == JStr(<<"n", "o", " ", "e", "r", "r", "o", "r">>)

V_listerr == JList(<<JStr(K_error)>>)

JsonTable ==
    << <<T_pass, V_pass>>, <<T_errkey, V_errkey>>, <<T_ok, V_ok>>,
       <<T_strerr, V_strerr>>, <<T_num, JNum(5)>>, <<T_listerr, V_listerr>>,
       <<T_null, JNull>> >>

\* json.loads(x): [ok |-> TRUE, value |-> v], or [ok |-> FALSE] when it
\* raises (x is not a str, or is not JSON text).
JsonLoads(x) ==
    IF x.t = "str" /\ \E i \in 1..Len(JsonTable) : JsonTable[i][1] = x.s
    THEN [ok |-> TRUE,
          value |-> JsonTable[CHOOSE i \in 1..Len(JsonTable) : JsonTable[i][1] = x.s][2]]
    ELSE [ok |-> FALSE]

\* json.dumps(v, indent=2) for a str, a number, null, and a list or dict of
\* such values.
Quoted(s) == <<"\"">> \o s \o <<"\"">>

DumpScalar(v) ==
    CASE v.t = "str" -> Quoted(v.s)
      [] v.t = "num" -> <<AsciiPrintable[17 + v.n]>>
      [] OTHER       -> <<"n", "u", "l", "l">>

RECURSIVE DumpItems(_, _)
DumpItems(items, isDict) ==
    IF items = <<>> THEN <<>>
    ELSE <<"\n", " ", " ">>
         \o (IF isDict
             THEN Quoted(Head(items)[1]) \o <<":", " ">> \o DumpScalar(Head(items)[2])
             ELSE DumpScalar(Head(items)))
         \o (IF Len(items) > 1 THEN <<",">> ELSE <<"\n">>)
         \o DumpItems(Tail(items), isDict)

JsonDumps(v) ==
    CASE v.t = "dict" -> <<"{">> \o DumpItems(v.items, TRUE) \o <<"}">>
      [] v.t = "list" -> <<"[">> \o DumpItems(v.e, FALSE) \o <<"]">>
      [] OTHER        -> DumpScalar(v)

(***************************************************************************)
(* The process environment, the requests and the replies of the inference  *)
(* endpoint the model draws from.                                          *)
(***************************************************************************)
Slots == {1, 2}

\* The connection string of the storage account, one with a wrong key, and
\* the forms an app setting takes when it was saved with its quotes.
ValidConn == <<"k">>

ConnStrings ==
    { None, <<>>, <<"\"">>, <<"\"", "k", "\"">>, ValidConn, <<"x">> }

ContainerNames == { None, <<"p">> }

Environments == [conn : ConnStrings, container : ContainerNames]

Timestamps ==
    { <<"2", "0", "2", "4", "0", "1", "1", "5", "_", "1", "0", "1", "5", "0", "0">>,
      <<"2", "0", "2", "4", "1", "2", "3", "1", "_", "2", "3", "5", "9", "5", "9">> }

NoFile == [present |-> FALSE]

Upload(filename, content) ==
    [present |-> TRUE, filename |-> filename, content |-> content]

FileNames == { <<"a", ".", "j", "p", "g">>, <<"a", ".", "t", "x", "t">>, <<"a", ".", "j", "s", "o", "n">> }

FileContents == { <<77>>, <<77, 97>> }

Files == { NoFile } \cup { Upload(f, c) : f \in FileNames, c \in FileContents }

Categories == { None, <<"b", "o", "g", "u", "s">>, <<"d", "u", "s", "t", "b", "i", "n">> }

StoreIdInputs == { None, <<>>, <<"s">>, <<"/", "s">> }

Requests == [category : Categories, store_id : StoreIdInputs, file : Files]

E_ollama_error == <<"o", "l", "l", "a", "m", "a", "_", "e", "r", "r", "o", "r">>

E_invalid_format == <<"i", "n", "v", "a", "l", "i", "d", "_", "f", "o", "r", "m", "a", "t">>

E_bad_json == <<"b", "a", "d", "_", "j", "s", "o", "n">>

E_exception == <<"e", "x", "c", "e", "p", "t", "i", "o", "n">>

NotJson == [t |-> "notjson"]

Fault(msg) == [kind |-> "fault", msg |-> msg]

Http(status, text, json) ==
    [kind |-> "http", status |-> status, text |-> text, json |-> json]

Reply(x) == JDict(<< <<K_response, x>> >>)

ReplyTexts ==
    { T_pass, T_errkey, T_ok, T_strerr, T_num, T_listerr, T_null, T_notjson }

\* What requests.post(...) can come back with: a transport fault, a
\* non-200 answer, and 200 answers whose body is not JSON, is JSON of some
\* other shape, or carries a "response" field.
PostOutcomes ==
    { Fault("ConnectionError"),
      Http(503, "unavailable", NotJson),
      Http(200, "<html>", NotJson),
      Http(200, "5", JNum(5)),
      Http(200, "\"response\"", JStr(K_response)),
      Http(200, "[]", JList(<<>>)),
      Http(200, "{\"error\": \"x\"}", V_errkey),
      Http(200, "{\"response\": 5}", Reply(JNum(5))) }
    \cup { Http(200, "{\"response\": ...}", Reply(JStr(x))) : x \in ReplyTexts }

(***************************************************************************)
(* HTTP responses of main.                                                 *)
(***************************************************************************)
NoResponse == [status_code |-> 0]

HttpResponse(status_code, body) == [status_code |-> status_code, body |-> body]

ErrorBody(message) == [status |-> "error", message |-> message]

Passed == [status_code |-> -1]

FAILED == <<"f", "a", "i", "l", "e", "d">>

\* The exception leaving main.
UnhandledPropagates(e) == [status_code |-> 0, raised |-> e]

\* main, lines 346-352: the catch-all turns an exception into a 500.
Unhandled(e) == HttpResponse(500, ErrorBody(e))

\* main's adls_conn, lines 246-251: the setting without the quotes it may
\* have been saved with.
AdlsConn(e) ==
    IF ~Falsy(e.conn) /\ StartsWith(e.conn, "\"") /\ EndsWith(e.conn, "\"")
    THEN Strip(e.conn, "\"")
    ELSE e.conn

MissingEnvironment ==
    HttpResponse(500, ErrorBody(Text("Missing ADLS environment variables")))

InvalidCategory(category) ==
    HttpResponse(400, ErrorBody([t |-> "text", id |-> "Invalid or missing category",
                                 arg |-> category]))

MissingStoreId == HttpResponse(400, ErrorBody(Text("Missing ?store_id=")))

MissingFile == HttpResponse(400, ErrorBody(Text("Missing file upload")))

\* The store id checked before the category.
ValidationStoreIdFirst(e, rq) ==
    IF Falsy(AdlsConn(e)) \/ Falsy(e.container) THEN MissingEnvironment
    ELSE IF Falsy(rq.store_id) THEN MissingStoreId
    ELSE IF Falsy(rq.category) \/ rq.category \notin CATEGORY_PROMPTS
    THEN InvalidCategory(rq.category)
    ELSE IF ~rq.file.present THEN MissingFile
    ELSE Passed

\* The store id not checked.
ValidationSkipsStoreId(e, rq) ==
    IF Falsy(AdlsConn(e)) \/ Falsy(e.container) THEN MissingEnvironment
    ELSE IF Falsy(rq.category) \/ rq.category \notin CATEGORY_PROMPTS
    THEN InvalidCategory(rq.category)
    ELSE IF ~rq.file.present THEN MissingFile
    ELSE Passed

\* main, lines 253-285: the response of the first check that fails, or
\* Passed.
Validation(e, rq) ==
    IF Falsy(AdlsConn(e)) \/ Falsy(e.container) THEN MissingEnvironment
    ELSE IF Falsy(rq.category) \/ rq.category \notin CATEGORY_PROMPTS
    THEN InvalidCategory(rq.category)
    ELSE IF Falsy(rq.store_id) THEN MissingStoreId
    ELSE IF ~rq.file.present THEN MissingFile
    ELSE Passed

(***************************************************************************)
(* run_moondream_inference, lines 358-388: the dict it returns for an      *)
(* outcome of the POST.                                                    *)
(***************************************************************************)
InferenceError(error, details) ==
    JDict(<< <<K_error, JStr(error)>>, <<K_details, details>> >>)

\* lines 376-384: a 200 answer whose body decoded to `data`.
ClassifyBody(data) ==
    LET has == PyIn(K_response, data)
    IN  IF has = "TypeError"
        THEN InferenceError(E_exception, Text("TypeError"))
        ELSE IF has = "no"
        THEN InferenceError(E_invalid_format, data)
        ELSE IF data.t # "dict"
        \* data["response"] raises in the inner try and again in its
        \* handler, which the outer handler catches
        THEN InferenceError(E_exception, Text("TypeError"))
        ELSE LET parsed == JsonLoads(Lookup(data, K_response))
             IN  IF parsed.ok THEN parsed.value
                 ELSE InferenceError(E_bad_json, Lookup(data, K_response))

\* The status check of line 373 left out.
RunMoondreamInferenceAnyStatus(outcome) ==
    IF outcome.kind = "fault"
    THEN InferenceError(E_exception, Text(outcome.msg))
    ELSE IF outcome.json = NotJson
    THEN InferenceError(E_exception, Text("JSONDecodeError"))
    ELSE ClassifyBody(outcome.json)

RunMoondreamInference(outcome) ==
    IF outcome.kind = "fault"
    THEN InferenceError(E_exception, Text(outcome.msg))
    ELSE IF outcome.status # 200
    THEN InferenceError(E_ollama_error, Text(outcome.text))
    ELSE IF outcome.json = NotJson
    THEN InferenceError(E_exception, Text("JSONDecodeError"))
    ELSE ClassifyBody(outcome.json)

(***************************************************************************)
(* The storage layer: credentials, and the upload call in flight.          *)
(***************************************************************************)
\* get_service_client, lines 19-24, on the connection string the module
\* read at import: "absent" raises ValueError at line 22; a string still in
\* its quotes is "malformed" and from_connection_string raises; a well-formed
\* string with a wrong key gives a client whose calls are all "denied".
CredentialOutcome(conn) ==
    IF Falsy(conn) THEN "absent"
    ELSE IF conn = ValidConn THEN "ok"
    ELSE IF StartsWith(conn, "\"") THEN "malformed"
    ELSE "denied"

NoCall == [fn |-> "none"]

Frame(fn, caller, directory_path, file_path, content_bytes) ==
    [fn |-> fn, caller |-> caller, directory_path |-> directory_path,
     file_path |-> file_path, content_bytes |-> content_bytes]

\* upload_json_to_adls, lines 84-102: the arguments it hands to
\* _upload_data_to_adls (is_text: the text is encoded at line 61).
JsonFrame(caller, data, category, timestamp, store_id) ==
    Frame("json", caller, JsonDirectory(timestamp, store_id),
          JsonPath(category, timestamp, store_id), Utf8Encode(JsonDumps(data)))

\* upload_image_to_adls, lines 116-132.
RawFrame(caller, file_content, category, store_id, original_filename, timestamp) ==
    Frame("raw", caller, RawDirectory(timestamp, store_id),
          RawPath(category, store_id, original_filename, timestamp), file_content)

\* upload_base64_to_adls, lines 145-160.
Base64Frame(caller, b64_string, category, store_id, timestamp) ==
    Frame("base64", caller, Base64Directory(timestamp, store_id),
          Base64Path(category, store_id, timestamp), Utf8Encode(b64_string))

\* The handlers at lines 104-106, 133-135 and 161-163 wrap what was raised.
UploadError(fn, cause) == [t |-> "text", id |-> "Failed to upload to ADLS", fn |-> fn, cause |-> cause]

Returned(path) == [ok |-> TRUE, path |-> path]

Raised(cause) == [ok |-> FALSE, cause |-> cause]

(***************************************************************************)
(* main after validation: locals, and what it does with the result of each *)
(* call.                                                                   *)
(***************************************************************************)
Unset == [t |-> "unset"]

NoLocals ==
    [timestamp |-> None, file_content |-> <<>>, post |-> Unset, ai_result |-> Unset,
     adls_path_json |-> None, raw_path |-> None]

\* The raw image's path kept when only the base64 upload raised.
PathsOnFailureKeepsRaw(l) ==
    [raw |-> IF l.raw_path # None THEN l.raw_path ELSE FAILED, base64 |-> FAILED]

\* main, line 328: the placeholder paths when save_image_and_base64 raised.
PathsOnFailure(l) == [raw |-> FAILED, base64 |-> FAILED]

\* main, lines 330-344.
SuccessResponse(rq, l, paths) ==
    HttpResponse(200, [status |-> "success",
                       filename |-> rq.file.filename,
                       category |-> rq.category,
                       adls_path_json |-> l.adls_path_json,
                       adls_path_raw_image |-> paths.raw,
                       adls_path_base64 |-> paths.base64,
                       result |-> l.ai_result])

\* The failure of the model reported as a server error.
InferenceFailureResponse500(rq, l) ==
    HttpResponse(500, [status |-> "error",
                       filename |-> rq.file.filename,
                       message |-> IF HasKey(l.ai_result, K_details)
                                   THEN Lookup(l.ai_result, K_details)
                                   ELSE Text("Unknown error")])

\* main, lines 300-308: the response when the result carries "error";
\* ai_result.get("details", "Unknown error") is its message.
InferenceFailureResponse(rq, l) ==
    HttpResponse(200, [status |-> "error",
                       filename |-> rq.file.filename,
                       message |-> IF HasKey(l.ai_result, K_details)
                                   THEN Lookup(l.ai_result, K_details)
                                   ELSE Text("Unknown error")])

\* main, lines 299-311: the inference result carries an error marker, or
\* the JSON upload is entered.  [pc, call, resp] for the request.
AfterInference(rq, l) ==
    LET marker == PyIn(K_error, l.ai_result)
    IN  IF marker = "TypeError"
        THEN [pc |-> "done", call |-> NoCall, resp |-> Unhandled(Text("TypeError"))]
        ELSE IF marker = "yes"
        THEN [pc |-> "done", call |-> NoCall,
              resp |-> IF l.ai_result.t # "dict"
                       THEN Unhandled(Text("AttributeError"))
                       ELSE InferenceFailureResponse(rq, l)]
        ELSE [pc |-> "container",
              call |-> JsonFrame("main", l.ai_result, rq.category, l.timestamp, rq.store_id),
              resp |-> NoResponse]

\* What follows the return or the raise of an upload call: for a direct
\* caller its result; in main the next upload (lines 311-324,
\* save_image_and_base64 lines 175-180), the success response, or the
\* catch-all.  [pc, call, resp, loc] for the request.
AfterUpload(rq, l, c, outcome) ==
    IF c.caller = "direct"
    THEN [pc |-> "done", call |-> NoCall, loc |-> l,
          resp |-> IF outcome.ok THEN [returned |-> outcome.path]
                   ELSE [raised |-> UploadError(c.fn, outcome.cause)]]
    ELSE IF c.fn = "json"
    THEN IF outcome.ok
         THEN [pc |-> "container",
               call |-> RawFrame("main", l.file_content, rq.category, rq.store_id,
                                 rq.file.filename, l.timestamp),
               loc |-> [l EXCEPT !.adls_path_json = outcome.path],
               resp |-> NoResponse]
         ELSE [pc |-> "done", call |-> NoCall, loc |-> l,
               resp |-> Unhandled(UploadError("json", outcome.cause))]
    ELSE IF c.fn = "raw"
    THEN IF outcome.ok
         THEN [pc |-> "container",
               call |-> Base64Frame("main", B64Encode(l.file_content), rq.category,
                                    rq.store_id, l.timestamp),
               loc |-> [l EXCEPT !.raw_path = outcome.path],
               resp |-> NoResponse]
         ELSE [pc |-> "done", call |-> NoCall, loc |-> l,
               resp |-> SuccessResponse(rq, l, PathsOnFailure(l))]
    ELSE IF outcome.ok
         THEN [pc |-> "done", call |-> NoCall, loc |-> l,
               resp |-> SuccessResponse(rq, l, [raw |-> l.raw_path, base64 |-> outcome.path])]
         ELSE [pc |-> "done", call |-> NoCall, loc |-> l,
               resp |-> SuccessResponse(rq, l, PathsOnFailure(l))]

(***************************************************************************)
(* The storage service.                                                    *)
(***************************************************************************)
\* How a call to the service can end: "denied" for a wrong key, else "ok" or,
\* while the budget lasts, a "fault" of the network.
CallResults(cred) ==
    IF cred = "denied" THEN {"denied"}
    ELSE {"ok"} \cup (IF nfaults < MaxFaults THEN {"fault"} ELSE {})

Faults(res) == IF res = "fault" THEN nfaults + 1 ELSE nfaults

NewFile == [data |-> <<>>, staged |-> <<>>]

\* append_data(data, offset=0): the bytes are staged from position 0, over
\* whatever was staged there.
Staged(old, content_bytes) ==
    content_bytes \o SubSeq(old, Len(content_bytes) + 1, Len(old))

\* The length the file has once everything staged is written.
PendingLength(f) == IF f.staged # <<>> THEN Len(f.staged) ELSE Len(f.data)

\* flush_data(position): what was staged becomes the content.
Flushed(f) == [data |-> IF f.staged # <<>> THEN f.staged ELSE f.data, staged |-> <<>>]

\* The history entry of a call: how the network answered (res) and, when it
\* did, whether the service took the call ("ok") or rejected it ("error").
Log(r, target, op, res, ok) ==
    [ops EXCEPT ![r] = Append(@, <<target, op,
                                   IF res # "ok" THEN res ELSE IF ok THEN "ok" ELSE "error">>)]

\* Another request stands between its create_file and its flush_data on
\* path p.
Writing(s, p) == pc[s] \in {"append", "flush"} /\ call[s].file_path = p

Races(r, p) ==
    IF \E s \in Slots \ {r} : Writing(s, p) THEN raced \cup {p} ELSE raced

\* The request r goes on as `after` says.
Goto(r, after) ==
    /\ pc' = [pc EXCEPT ![r] = after.pc]
    /\ call' = [call EXCEPT ![r] = after.call]
    /\ resp' = [resp EXCEPT ![r] = after.resp]
    /\ loc' = [loc EXCEPT ![r] = after.loc]

Step(r, to) ==
    /\ pc' = [pc EXCEPT ![r] = to]
    /\ UNCHANGED <<call, resp, loc>>

\* A failed create_directory ending the upload.
MkdirNextFails(created) == IF created THEN "create" ELSE "done"

\* _upload_data_to_adls, lines 52-57: whether create_directory succeeded or
\* raised, the upload goes on to create_file.
MkdirNext(created) == "create"

\* The bytes append_data is called with, line 70.
AppendedBytes(c) == c.content_bytes

\* A flush at the start of the file.
FlushAtStart(c) == 0

\* The position flush_data is called with, line 71.
FlushPosition(c) == Len(c.content_bytes)

(***************************************************************************)
(* Actions.                                                                *)
(***************************************************************************)
\* An HTTP request arrives.
Receive(r) ==
    /\ pc[r] = "idle"
    /\ \E rq \in Requests : req' = [req EXCEPT ![r] = rq]
    /\ pc' = [pc EXCEPT ![r] = "main"]
    /\ UNCHANGED <<env, container_exists, files, nfaults, loc, call, resp, ops,
                   raced, written>>

\* main, lines 244-290: the four checks, then the file is read and the
\* timestamp taken.
Validate(r) ==
    /\ pc[r] = "main"
    /\ LET v == Validation(env, req[r])
       IN  IF v # Passed
           THEN /\ resp' = [resp EXCEPT ![r] = v]
                /\ pc' = [pc EXCEPT ![r] = "done"]
                /\ UNCHANGED loc
           ELSE /\ \E ts \in Timestamps :
                     loc' = [loc EXCEPT ![r] = [NoLocals EXCEPT
                                                  !.timestamp = ts,
                                                  !.file_content = req[r].file.content]]
                /\ pc' = [pc EXCEPT ![r] = "infer"]
                /\ UNCHANGED resp
    /\ UNCHANGED <<env, container_exists, files, nfaults, req, call, ops, raced, written>>

\* main, lines 296-311: the inference call and what main makes of its
\* result.
Infer(r) ==
    /\ pc[r] = "infer"
    /\ \E outcome \in PostOutcomes :
         LET l == [loc[r] EXCEPT !.post = outcome,
                                 !.ai_result = RunMoondreamInference(outcome)]
             after == AfterInference(req[r], l)
         IN  /\ loc' = [loc EXCEPT ![r] = l]
             /\ pc' = [pc EXCEPT ![r] = after.pc]
             /\ call' = [call EXCEPT ![r] = after.call]
             /\ resp' = [resp EXCEPT ![r] = after.resp]
             /\ ops' = Log(r, "ollama", "post",
                           IF outcome.kind = "http" THEN "ok" ELSE "fault", TRUE)
    /\ UNCHANGED <<env, container_exists, files, nfaults, req, raced, written>>

\* get_service_client and ensure_container_exists, lines 19-41: without a
\* usable connection string the upload raises; else create_file_system is
\* called and its failure ignored.
Container(r) ==
    /\ pc[r] = "container"
    /\ LET cred == CredentialOutcome(env.conn)
       IN  IF cred \in {"absent", "malformed"}
           THEN /\ Goto(r, AfterUpload(req[r], loc[r], call[r], Raised(Text(cred))))
                /\ UNCHANGED <<container_exists, nfaults, ops>>
           ELSE \E res \in CallResults(cred) :
                  /\ ops' = Log(r, call[r].fn, "create_file_system", res, ~container_exists)
                  /\ container_exists' = (container_exists \/ res = "ok")
                  /\ nfaults' = Faults(res)
                  /\ Step(r, "mkdir")
    /\ UNCHANGED <<env, files, req, raced, written>>

\* _upload_data_to_adls, lines 52-57: create_directory, its failure
\* ignored.
Mkdir(r) ==
    /\ pc[r] = "mkdir"
    /\ \E res \in CallResults(CredentialOutcome(env.conn)) :
         /\ ops' = Log(r, call[r].fn, "create_directory", res, container_exists)
         /\ nfaults' = Faults(res)
         /\ pc' = [pc EXCEPT ![r] = MkdirNext(res = "ok" /\ container_exists)]
         /\ UNCHANGED <<call, resp, loc>>
    /\ UNCHANGED <<env, container_exists, files, req, raced, written>>

\* line 69: create_file makes the path an empty file, whatever was there.
Create(r) ==
    /\ pc[r] = "create"
    /\ \E res \in CallResults(CredentialOutcome(env.conn)) :
         LET p  == call[r].file_path
             ok == res = "ok" /\ container_exists
         IN  /\ ops' = Log(r, call[r].fn, "create_file", res, ok)
             /\ nfaults' = Faults(res)
             /\ IF ok
                THEN /\ files' = (p :> NewFile) @@ files
                     /\ raced' = Races(r, p)
                     /\ Step(r, "append")
                ELSE /\ Goto(r, AfterUpload(req[r], loc[r], call[r], Raised(Text(res))))
                     /\ UNCHANGED <<files, raced>>
    /\ UNCHANGED <<env, container_exists, req, written>>

\* line 70: append_data(content_bytes, offset=0, length=len(content_bytes)).
AppendData(r) ==
    /\ pc[r] = "append"
    /\ \E res \in CallResults(CredentialOutcome(env.conn)) :
         LET p  == call[r].file_path
             ok == res = "ok" /\ p \in DOMAIN files
         IN  /\ ops' = Log(r, call[r].fn, "append_data", res, ok)
             /\ nfaults' = Faults(res)
             /\ IF ok
                THEN /\ files' = [files EXCEPT ![p].staged = Staged(@, AppendedBytes(call[r]))]
                     /\ raced' = Races(r, p)
                     /\ Step(r, "flush")
                ELSE /\ Goto(r, AfterUpload(req[r], loc[r], call[r], Raised(Text(res))))
                     /\ UNCHANGED <<files, raced>>
    /\ UNCHANGED <<env, container_exists, req, written>>

\* lines 71-74: flush_data at the length of the content; the service takes
\* the flush only at the length of what is written, and the path is
\* returned.
FlushData(r) ==
    /\ pc[r] = "flush"
    /\ \E res \in CallResults(CredentialOutcome(env.conn)) :
         LET p  == call[r].file_path
             ok == /\ res = "ok"
                   /\ p \in DOMAIN files
                   /\ FlushPosition(call[r]) = PendingLength(files[p])
         IN  /\ ops' = Log(r, call[r].fn, "flush_data", res, ok)
             /\ nfaults' = Faults(res)
             /\ IF ok
                THEN /\ files' = [files EXCEPT ![p] = Flushed(@)]
                     /\ raced' = Races(r, p)
                     /\ written' = (p :> call[r].content_bytes) @@ written
                     /\ Goto(r, AfterUpload(req[r], loc[r], call[r], Returned(p)))
                ELSE /\ Goto(r, AfterUpload(req[r], loc[r], call[r],
                                            Raised(Text(IF res = "ok" THEN "InvalidFlushPosition"
                                                        ELSE res))))
                     /\ UNCHANGED <<files, raced, written>>
    /\ UNCHANGED <<env, container_exists, req>>

Handle(r) ==
    \/ Receive(r)
    \/ Validate(r)
    \/ Infer(r)
    \/ Container(r)
    \/ Mkdir(r)
    \/ Create(r)
    \/ AppendData(r)
    \/ FlushData(r)

(***************************************************************************)
(* One function instance serving one request from start to finish.         *)
(***************************************************************************)
NoRequest == [category |-> None, store_id |-> None, file |-> NoFile]

InitSlots(at) ==
    /\ container_exists = FALSE
    /\ files = <<>>
    /\ pc = [r \in Slots |-> at]
    /\ req = [r \in Slots |-> NoRequest]
    /\ loc = [r \in Slots |-> NoLocals]
    /\ call = [r \in Slots |-> NoCall]
    /\ resp = [r \in Slots |-> NoResponse]
    /\ ops = [r \in Slots |-> <<>>]
    /\ raced = {}
    /\ written = <<>>

Init ==
    /\ env \in Environments
    /\ nfaults = 0
    /\ InitSlots("idle")

Next == Handle(1)

Spec == Init /\ [][Next]_vars

(***************************************************************************)
(* The upload functions called on their own, with any arguments and under  *)
(* any environment.                                                        *)
(***************************************************************************)
StoreIdAlphabet == {"s", "/"}

\* Every str over StoreIdAlphabet of at most MaxStoreIdLen characters.
StoreIds == UNION { [1..k -> StoreIdAlphabet] : k \in 0..MaxStoreIdLen }

DirectCategories ==
    { <<"d", "u", "s", "t", "b", "i", "n">>, <<"b", "e", "d", "c", "h", "e", "c", "k">> }

DirectCalls ==
    { [fn |-> "json", data |-> d, category |-> c, timestamp |-> ts, store_id |-> s] :
        d \in {V_pass, V_ok}, c \in DirectCategories, ts \in Timestamps, s \in StoreIds }
    \cup
    { [fn |-> "raw", file_content |-> b, category |-> c, store_id |-> s,
       original_filename |-> f, timestamp |-> ts] :
        b \in FileContents, c \in DirectCategories, s \in StoreIds,
        f \in FileNames, ts \in Timestamps }
    \cup
    { [fn |-> "base64", b64_string |-> B64Encode(b), category |-> c, store_id |-> s,
       timestamp |-> ts] :
        b \in FileContents, c \in DirectCategories, s \in StoreIds, ts \in Timestamps }

\* The call of upload_json_to_adls (line 80), upload_image_to_adls (line
\* 112) or upload_base64_to_adls (line 141) with the arguments a.
DirectFrame(a) ==
    CASE a.fn = "json" ->
           JsonFrame("direct", a.data, a.category, a.timestamp, a.store_id)
      [] a.fn = "raw" ->
           RawFrame("direct", a.file_content, a.category, a.store_id,
                    a.original_filename, a.timestamp)
      [] OTHER ->
           Base64Frame("direct", a.b64_string, a.category, a.store_id, a.timestamp)

DirectCall(r) ==
    /\ pc[r] = "caller"
    /\ \E a \in DirectCalls :
         /\ req' = [req EXCEPT ![r] = a]
         /\ call' = [call EXCEPT ![r] = DirectFrame(a)]
    /\ pc' = [pc EXCEPT ![r] = "container"]
    /\ UNCHANGED <<env, container_exists, files, nfaults, loc, resp, ops, raced, written>>

UploadSteps(r) ==
    \/ DirectCall(r)
    \/ Container(r)
    \/ Mkdir(r)
    \/ Create(r)
    \/ AppendData(r)
    \/ FlushData(r)

InitUpload ==
    /\ env \in Environments
    /\ nfaults = 0
    /\ InitSlots("caller")

NextUpload == UploadSteps(1)

SpecUpload == InitUpload /\ [][NextUpload]_vars

(***************************************************************************)
(* The path builders alone, on every category.                             *)
(***************************************************************************)
PathFileNames == FileNames \cup { <<"a">>, <<".", "t", "x", "t">> }

PathInputs ==
    [category : CATEGORY_PROMPTS, store_id : StoreIds, timestamp : Timestamps,
     original_filename : PathFileNames]

BuildPaths(r) ==
    /\ pc[r] = "builder"
    /\ resp' = [resp EXCEPT ![r] =
                  [json   |-> JsonPath(req[r].category, req[r].timestamp, req[r].store_id),
                   raw    |-> RawPath(req[r].category, req[r].store_id,
                                      req[r].original_filename, req[r].timestamp),
                   base64 |-> Base64Path(req[r].category, req[r].store_id,
                                         req[r].timestamp)]]
    /\ pc' = [pc EXCEPT ![r] = "built"]
    /\ UNCHANGED <<env, container_exists, files, nfaults, req, loc, call, ops, raced, written>>

InitPath ==
    /\ env = [conn |-> ValidConn, container |-> <<"p">>]
    /\ nfaults = 0
    /\ container_exists = FALSE
    /\ files = <<>>
    /\ pc = [r \in Slots |-> IF r = 1 THEN "builder" ELSE "idle"]
    /\ \E a \in PathInputs : req = [r \in Slots |-> IF r = 1 THEN a ELSE NoRequest]
    /\ loc = [r \in Slots |-> NoLocals]
    /\ call = [r \in Slots |-> NoCall]
    /\ resp = [r \in Slots |-> NoResponse]
    /\ ops = [r \in Slots |-> <<>>]
    /\ raced = {}
    /\ written = <<>>

NextPath == BuildPaths(1)

SpecPath == InitPath /\ [][NextPath]_vars

(***************************************************************************)
(* Two function instances, each serving one request, against the same     *)
(* storage account; the network does not fail.                            *)
(***************************************************************************)
RaceRequests ==
    [category : { <<"d", "u", "s", "t", "b", "i", "n">> },
     store_id : { <<"s">> },
     file : { Upload(<<"a", ".", "j", "p", "g">>, c) : c \in FileContents }]

ReceiveRace(r) ==
    /\ pc[r] = "idle"
    /\ \E rq \in RaceRequests : req' = [req EXCEPT ![r] = rq]
    /\ pc' = [pc EXCEPT ![r] = "main"]
    /\ UNCHANGED <<env, container_exists, files, nfaults, loc, call, resp, ops,
                   raced, written>>

HandleRace(r) ==
    \/ ReceiveRace(r)
    \/ Validate(r)
    \/ Infer(r)
    \/ Container(r)
    \/ Mkdir(r)
    \/ Create(r)
    \/ AppendData(r)
    \/ FlushData(r)

InitConcurrent ==
    /\ env = [conn |-> ValidConn, container |-> <<"p">>]
    /\ nfaults = MaxFaults
    /\ InitSlots("idle")

NextConcurrent == \E r \in Slots : HandleRace(r)

SpecConcurrent == InitConcurrent /\ [][NextConcurrent]_vars

(***************************************************************************)
(* Properties.                                                             *)
(***************************************************************************)
\* Check (1) of main: both settings are there, a connection string made of
\* nothing but the quotes it was saved with counting as empty.
CredentialsPresent(e) ==
    /\ ~Falsy(e.conn)
    /\ \E i \in 1..Len(e.conn) : e.conn[i] # "\""
    /\ ~Falsy(e.container)

\* The first of the four checks the request fails, 0 when it passes all.
FirstFailure(e, rq) ==
    IF ~CredentialsPresent(e) THEN 1
    ELSE IF Falsy(rq.category) \/ rq.category \notin CATEGORY_PROMPTS THEN 2
    ELSE IF Falsy(rq.store_id) THEN 3
    ELSE IF ~rq.file.present THEN 4
    ELSE 0

FailureMessage(k) ==
    CASE k = 1 -> "Missing ADLS environment variables"
      [] k = 2 -> "Invalid or missing category"
      [] k = 3 -> "Missing ?store_id="
      [] OTHER -> "Missing file upload"

Validated(r) == pc[r] \notin {"idle", "main"}

\* C1: the response of a request that fails a check is the one of the first
\* check it fails, in the order credentials, category, store id, file: 500
\* for the credentials and 400 for the others, with status "error" and, for
\* the category, a message that names it, whatever the later checks say.
C1_ValidationOrder ==
    \A r \in Slots :
        LET k == FirstFailure(env, req[r])
        IN  (Validated(r) /\ k # 0) =>
                /\ pc[r] = "done"
                /\ resp[r].status_code = (IF k = 1 THEN 500 ELSE 400)
                /\ resp[r].body.status = "error"
                /\ resp[r].body.message.id = FailureMessage(k)
                /\ (k = 2 => resp[r].body.message.arg = req[r].category)

\* A request with an unknown category that also lacks the store id and the
\* file was answered for its category.
C1_Witness ==
    \E r \in Slots :
        /\ pc[r] = "done"
        /\ FirstFailure(env, req[r]) = 2
        /\ req[r].category # None
        /\ Falsy(req[r].store_id)
        /\ ~req[r].file.present
        /\ resp[r].status_code = 400
        /\ resp[r].body.message.arg = req[r].category

\* C2: a request that fails one of the four checks is answered with its
\* error without any call to the inference endpoint and without any storage
\* operation.
C2_NoWorkBeforeValidation ==
    \A r \in Slots :
        (pc[r] # "idle" /\ FirstFailure(env, req[r]) # 0) =>
            /\ pc[r] \in {"main", "done"}
            /\ ops[r] = <<>>
            /\ call[r] = NoCall
            /\ files = <<>>
            /\ ~container_exists
            /\ (pc[r] = "done" => resp[r].status_code \in {400, 500})

\* A request that lacks only the file was answered 400 with nothing called.
C2_Witness ==
    \E r \in Slots :
        /\ pc[r] = "done"
        /\ FirstFailure(env, req[r]) = 4
        /\ ops[r] = <<>>
        /\ resp[r].status_code = 400

IsError(a, error) ==
    /\ a.t = "dict"
    /\ HasKey(a, K_error)
    /\ Lookup(a, K_error) = JStr(error)

HasResponseField(body) == body.t = "dict" /\ HasKey(body, K_response)

Posted(r) == loc[r].post # Unset

\* C3 as stated: a 200 answer whose body has no "response" field is
\* classified invalid_format, whatever the body is.
ClaimedClassification(o, a) ==
    IF o.kind = "fault" THEN a = InferenceError(E_exception, Text(o.msg))
    ELSE IF o.status # 200 THEN a = InferenceError(E_ollama_error, Text(o.text))
    ELSE IF ~HasResponseField(o.json) THEN IsError(a, E_invalid_format)
    ELSE LET reply == Lookup(o.json, K_response)
         IN  IF JsonLoads(reply).ok THEN a = JsonLoads(reply).value
             ELSE a = InferenceError(E_bad_json, reply)

C3_Original ==
    \A r \in Slots : Posted(r) => ClaimedClassification(loc[r].post, loc[r].ai_result)

\* The lookup of "response" in a decoded body: it raises on a number or
\* null, and on a string or an array in which "response" is found.
LookupRaises(body) ==
    \/ body.t \in {"num", "null"}
    \/ body.t = "str" /\ Contains(K_response, body.s)
    \/ body.t = "list" /\ \E i \in 1..Len(body.e) : body.e[i] = JStr(K_response)

AmendedClassification(o, a) ==
    IF o.kind = "fault" THEN a = InferenceError(E_exception, Text(o.msg))
    ELSE IF o.status # 200 THEN a = InferenceError(E_ollama_error, Text(o.text))
    ELSE IF o.json = NotJson \/ LookupRaises(o.json) THEN IsError(a, E_exception)
    ELSE IF ~HasResponseField(o.json) THEN a = InferenceError(E_invalid_format, o.json)
    ELSE LET reply == Lookup(o.json, K_response)
         IN  IF JsonLoads(reply).ok THEN a = JsonLoads(reply).value
             ELSE a = InferenceError(E_bad_json, reply)

\* C3 (amended): run_moondream_inference returns, and never raises: for a
\* transport fault {error: exception, details: the message}; for a non-200
\* status {error: ollama_error, details: the raw body}; for a 200 answer
\* whose body is not JSON, or is JSON on which the lookup of "response"
\* raises, {error: exception}; for a 200 answer whose JSON body has no
\* "response", {error: invalid_format, details: the body}; for a "response"
\* that does not parse as JSON {error: bad_json, details: the raw reply};
\* and else the parsed value.
C3_Classification ==
    \A r \in Slots :
        Posted(r) => AmendedClassification(loc[r].post, loc[r].ai_result)

\* A 200 answer whose body is not JSON was classified as an exception.
C3_Witness ==
    \E r \in Slots :
        /\ Posted(r)
        /\ loc[r].post.kind = "http"
        /\ loc[r].post.status = 200
        /\ loc[r].post.json = NotJson
        /\ IsError(loc[r].ai_result, E_exception)

\* The inference client returned one of its error outcomes: the POST did
\* not come back 200 with a "response" that parses.
InferenceFailed(o) ==
    ~(/\ o.kind = "http"
      /\ o.status = 200
      /\ HasResponseField(o.json)
      /\ JsonLoads(Lookup(o.json, K_response)).ok)

StorageOps(r) == { i \in 1..Len(ops[r]) : ops[r][i][1] # "ollama" }

\* C4: when the inference client returns an error outcome for a validated
\* request, main answers 200 with status "error" and the detail as message,
\* and attempts no storage write.
C4_InferenceErrorResponse ==
    \A r \in Slots :
        (Posted(r) /\ InferenceFailed(loc[r].post)) =>
            /\ pc[r] = "done"
            /\ resp[r].status_code = 200
            /\ resp[r].body.status = "error"
            /\ resp[r].body.message = Lookup(loc[r].ai_result, K_details)
            /\ StorageOps(r) = {}
            /\ call[r] = NoCall
            /\ files = <<>>

\* A 503 of the endpoint was answered 200 "error" with the raw body.
C4_Witness ==
    \E r \in Slots :
        /\ Posted(r)
        /\ loc[r].post.kind = "http"
        /\ loc[r].post.status = 503
        /\ resp[r].status_code = 200
        /\ resp[r].body.status = "error"
        /\ resp[r].body.message = Text(loc[r].post.text)
        /\ StorageOps(r) = {}

\* The path as the contract writes it: the components joined by "/", with
\* none of them ever discarding what precedes it.
ContractJoinStep(path, b) ==
    IF path = <<>> \/ EndsWith(path, "/") THEN path \o b ELSE path \o <<"/">> \o b

RECURSIVE ContractJoin(_, _)
ContractJoin(path, parts) ==
    IF parts = <<>> THEN path
    ELSE ContractJoin(ContractJoinStep(path, Head(parts)), Tail(parts))

\* <prefix>/<store id>/<YYYY>/<MM>/<DD>/<category>_<timestamp><ext>
ContractPath(prefix, store_id, timestamp, category, ext) ==
    ContractJoin(prefix,
                 <<store_id, SubSeq(timestamp, 1, 4), SubSeq(timestamp, 5, 6),
                   SubSeq(timestamp, 7, 8), category \o <<"_">> \o timestamp \o ext>>)

P_results == <<"r", "e", "s", "u", "l", "t", "s">>

P_raw == <<"i", "m", "a", "g", "e", "s", "/", "r", "a", "w">>

P_base64 == <<"i", "m", "a", "g", "e", "s", "/", "b", "a", "s", "e", "6", "4">>

X_json == <<".", "j", "s", "o", "n">>

X_txt == <<".", "t", "x", "t">>

\* The request got as far as the JSON upload: it passed validation and the
\* inference result is a parsed value without an error marker.
ReachedUpload(r) ==
    /\ Validated(r)
    /\ FirstFailure(env, req[r]) = 0
    /\ Posted(r)
    /\ ~InferenceFailed(loc[r].post)
    /\ PyIn(K_error, loc[r].ai_result) = "no"

\* The targets of the flushes that succeeded, in order.
RECURSIVE Flushes(_)
Flushes(log) ==
    IF log = <<>> THEN <<>>
    ELSE (IF Head(log)[2] = "flush_data" /\ Head(log)[3] = "ok"
          THEN <<Head(log)[1]>> ELSE <<>>) \o Flushes(Tail(log))

Stored(p, content) == p \in DOMAIN files /\ files[p] = [data |-> content, staged |-> <<>>]

\* C5: a request that passes validation, gets a result of the model and
\* whose storage calls all succeed writes exactly three objects, the JSON
\* result, the raw image and the base64 text in that order, and is answered
\* 200 "success" with the three paths they were written at: results/...,
\* images/raw/... and images/base64/... for its store id, category and
\* timestamp.
C5_Original ==
    \A r \in Slots :
        (/\ pc[r] = "done"
         /\ ReachedUpload(r)
         /\ CredentialOutcome(env.conn) = "ok"
         /\ nfaults = 0) =>
            LET rq == req[r]
                ts == loc[r].timestamp
                pj == ContractPath(P_results, rq.store_id, ts, rq.category, X_json)
                pr == ContractPath(P_raw, rq.store_id, ts, rq.category,
                                   SplitExt(rq.file.filename))
                pb == ContractPath(P_base64, rq.store_id, ts, rq.category, X_txt)
            IN  /\ resp[r].status_code = 200
                /\ resp[r].body.status = "success"
                /\ Flushes(ops[r]) = <<"json", "raw", "base64">>
                /\ resp[r].body.adls_path_json = pj
                /\ resp[r].body.adls_path_raw_image = pr
                /\ resp[r].body.adls_path_base64 = pb
                /\ Cardinality(DOMAIN files) = 3
                /\ Stored(pj, Utf8Encode(JsonDumps(loc[r].ai_result)))
                /\ Stored(pr, rq.file.content)
                /\ Stored(pb, Utf8Encode(B64Encode(rq.file.content)))

\* C6: for every valid category, every store id (a "/" in it, a leading "/"
\* included) and every timestamp, the path of each upload function begins
\* with its kind prefix, followed by the store id, the folders YYYY/MM/DD of
\* the first 8 characters of the timestamp, and <category>_<timestamp>.<ext>.
C6_Original ==
    \A r \in Slots :
        pc[r] = "built" =>
            LET a == req[r]
            IN  /\ resp[r].json =
                     ContractPath(P_results, a.store_id, a.timestamp, a.category, X_json)
                /\ resp[r].raw =
                     ContractPath(P_raw, a.store_id, a.timestamp, a.category,
                                  SplitExt(a.original_filename))
                /\ resp[r].base64 =
                     ContractPath(P_base64, a.store_id, a.timestamp, a.category, X_txt)

\* A write of the raw image or of the base64 text raised.
SecondaryRaised(r) ==
    \E i \in 1..Len(ops[r]) :
        /\ ops[r][i][1] \in {"raw", "base64"}
        /\ ops[r][i][2] \in {"create_file", "append_data", "flush_data"}
        /\ ops[r][i][3] # "ok"

\* C7: when the JSON result was written and the raw image or the base64
\* upload raises, main still answers 200 "success" with the JSON path and
\* the result of the model, and both adls_path_raw_image and
\* adls_path_base64 are "failed".
C7_SecondaryFailure ==
    \A r \in Slots :
        (pc[r] = "done" /\ loc[r].adls_path_json # None /\ SecondaryRaised(r)) =>
            /\ resp[r].status_code = 200
            /\ resp[r].body.status = "success"
            /\ resp[r].body.adls_path_json = loc[r].adls_path_json
            /\ loc[r].adls_path_json \in DOMAIN written
            /\ resp[r].body.result = loc[r].ai_result
            /\ resp[r].body.adls_path_raw_image = FAILED
            /\ resp[r].body.adls_path_base64 = FAILED

\* The raw image was written, the base64 upload raised, and the response
\* carries "failed" twice.
C7_Witness ==
    \E r \in Slots :
        /\ pc[r] = "done"
        /\ loc[r].raw_path # None
        /\ SecondaryRaised(r)
        /\ resp[r].body.status = "success"
        /\ resp[r].body.adls_path_raw_image = FAILED
        /\ resp[r].body.adls_path_base64 = FAILED

\* The JSON upload was entered and ended without a path.
JsonWriteFailed(r) ==
    /\ ReachedUpload(r)
    /\ call[r] = NoCall
    /\ loc[r].adls_path_json = None

\* C8: when the write of the JSON result fails (the credential, or the
\* create, append or flush), main answers 500 with status "error" and the
\* message of the exception, never a success, and attempts neither the raw
\* image nor the base64 upload; and main never propagates an exception:
\* every request that ends, ends with a response.
C8_PrimaryFailure ==
    \A r \in Slots :
        /\ JsonWriteFailed(r) =>
              /\ pc[r] = "done"
              /\ resp[r].status_code = 500
              /\ resp[r].body.status = "error"
              /\ resp[r].body.message.id = "Failed to upload to ADLS"
              /\ resp[r].body.message.fn = "json"
              /\ \A i \in StorageOps(r) : ops[r][i][1] = "json"
        /\ pc[r] = "done" =>
              /\ resp[r].status_code \in {200, 400, 500}
              /\ resp[r].body.status \in {"success", "error"}

\* The flush of the JSON result failed and the request was answered 500.
C8_Witness ==
    \E r \in Slots :
        /\ JsonWriteFailed(r)
        /\ ops[r][Len(ops[r])] = <<"json", "flush_data", "fault">>
        /\ resp[r].status_code = 500

\* The bytes a direct call was given to store.
GivenContent(a) ==
    CASE a.fn = "json" -> Utf8Encode(JsonDumps(a.data))
      [] a.fn = "raw" -> a.file_content
      [] OTHER -> Utf8Encode(a.b64_string)

WriteOps == {"create_file", "append_data", "flush_data"}

HasReturned(r) == pc[r] = "done" /\ "returned" \in DOMAIN resp[r]

HasRaised(r) == pc[r] = "done" /\ "raised" \in DOMAIN resp[r]

\* C9: an upload attempts the directory create before it creates the
\* object, and a failure of the directory create is swallowed: the upload
\* goes on.  The object is then created and its whole content written, so a
\* call that returns a path has stored exactly the given content at it, and
\* nothing but the credential or a create, append or flush that fails keeps
\* it from returning.  When the credential is absent or unusable, or the
\* create, append or flush fails, the call raises and returns no path.
C9_Upload ==
    \A r \in Slots :
        LET log  == ops[r]
            cred == CredentialOutcome(env.conn)
        IN  /\ \A i \in 1..Len(log) :
                  log[i][2] = "create_file" =>
                      /\ i > 1
                      /\ log[i - 1][2] = "create_directory"
                      /\ log[i - 1][1] = log[i][1]
            /\ (log # <<>> /\ log[Len(log)][2] = "create_directory") => pc[r] = "create"
            /\ HasReturned(r) =>
                  /\ resp[r].returned = DirectFrame(req[r]).file_path
                  /\ Stored(resp[r].returned, GivenContent(req[r]))
            /\ (/\ pc[r] = "done"
                /\ \/ cred # "ok"
                   \/ \E i \in 1..Len(log) : log[i][2] \in WriteOps /\ log[i][3] # "ok")
               => HasRaised(r)
            /\ (/\ pc[r] = "done"
                /\ cred = "ok"
                /\ container_exists
                /\ \A i \in 1..Len(log) : log[i][2] \in WriteOps => log[i][3] # "fault")
               => HasReturned(r)

\* An upload whose directory create failed returned its path, with the
\* content stored.
C9_Witness ==
    \E r \in Slots :
        /\ HasReturned(r)
        /\ \E i \in 1..Len(ops[r]) :
              ops[r][i][2] = "create_directory" /\ ops[r][i][3] = "fault"
        /\ Stored(resp[r].returned, GivenContent(req[r]))

\* The path request r writes its object of kind t at.
PathOf(r, t) ==
    CASE t = "json" -> JsonPath(req[r].category, loc[r].timestamp, req[r].store_id)
      [] t = "raw" -> RawPath(req[r].category, req[r].store_id, req[r].file.filename,
                              loc[r].timestamp)
      [] OTHER -> Base64Path(req[r].category, req[r].store_id, loc[r].timestamp)

Kinds == {"json", "raw", "base64"}

\* Both requests were served to the end, with the same category, store id
\* and timestamp, and both got as far as the uploads.
Collided ==
    /\ \A r \in Slots : pc[r] = "done" /\ ReachedUpload(r)
    /\ loc[1].timestamp = loc[2].timestamp

\* C10 (as stated): when two requests upload to the identical path, under
\* every interleaving of their create_file, append_data and flush_data
\* steps the object stored at the end is the complete content of the
\* upload that finished last, and neither upload reports an error.
C10_Original ==
    Collided =>
        /\ \A r \in Slots :
              /\ resp[r].status_code = 200
              /\ resp[r].body.adls_path_raw_image # FAILED
              /\ resp[r].body.adls_path_base64 # FAILED
        /\ \A t \in Kinds : Stored(PathOf(1, t), written[PathOf(1, t)])

\* C10 (amended): when the create_file .. flush_data sequences of the two
\* uploads to a path do not overlap, the object stored at the path, once no
\* upload is at work on it, is the complete content of the upload that
\* flushed last, and the service rejects no create, append or flush; one is
\* rejected, and the object is anything else, only on a path where the two
\* sequences overlapped.
C10_LastWriterWins ==
    /\ \A p \in DOMAIN written :
          (p \notin raced /\ \A s \in Slots : ~Writing(s, p)) => Stored(p, written[p])
    /\ \A r \in Slots : \A i \in 1..Len(ops[r]) :
          (ops[r][i][2] \in WriteOps /\ ops[r][i][3] = "error") =>
              PathOf(r, ops[r][i][1]) \in raced

\* Two requests with different images wrote the same paths one after the
\* other: neither failed and the raw image stored is the one flushed last.
C10_Witness ==
    /\ Collided
    /\ raced = {}
    /\ req[1].file.content # req[2].file.content
    /\ \A r \in Slots : resp[r].status_code = 200 /\ resp[r].body.adls_path_raw_image # FAILED
    /\ Stored(PathOf(1, "raw"), written[PathOf(1, "raw")])

\* The response main gives for a failed inference.
IsInferenceFailureResponse(r) ==
    /\ resp[r].status_code = 200
    /\ resp[r].body.status = "error"

\* C11: main answers with the inference-failure response (200, status
\* "error") exactly when run_moondream_inference classified the call as one
\* of its error outcomes; when the endpoint answered 200 with a "response"
\* that parses as JSON, whatever the parsed value is, the request goes on to
\* the write of the JSON result and, storage working, is answered "success".
C11_Original ==
    \A r \in Slots :
        (pc[r] = "done" /\ Validated(r) /\ Posted(r)) =>
            /\ IsInferenceFailureResponse(r) <=> InferenceFailed(loc[r].post)
            /\ (/\ ~InferenceFailed(loc[r].post)
                /\ CredentialOutcome(env.conn) = "ok"
                /\ nfaults = 0) =>
                  /\ \E i \in 1..Len(ops[r]) : ops[r][i][1] = "json"
                  /\ resp[r].status_code = 200
                  /\ resp[r].body.status = "success"

\* C12: in every success response, adls_path_raw_image is "failed" only if
\* the request wrote no raw image, and adls_path_base64 is "failed" only if
\* it wrote no base64 text.
C12_Original ==
    \A r \in Slots :
        (/\ pc[r] = "done"
         /\ Validated(r)
         /\ resp[r].status_code = 200
         /\ resp[r].body.status = "success") =>
            /\ resp[r].body.adls_path_raw_image = FAILED =>
                  \A i \in 1..Len(Flushes(ops[r])) : Flushes(ops[r])[i] # "raw"
            /\ resp[r].body.adls_path_base64 = FAILED =>
                  \A i \in 1..Len(Flushes(ops[r])) : Flushes(ops[r])[i] # "base64"

\* C13: for any category, store id, timestamp and original file name, the
\* paths of the JSON result, of the raw image and of the base64 text of one
\* request are pairwise distinct.
C13_Original ==
    \A r \in Slots :
        pc[r] = "built" =>
            /\ resp[r].json # resp[r].raw
            /\ resp[r].json # resp[r].base64
            /\ resp[r].raw # resp[r].base64

====
